---- MODULE Spec2Model ----
(***************************************************************************)
(* Model of src/api/analyze.ts: three revisions of one serverless request  *)
(* handler that forwards a speech sample to a generative-model API and     *)
(* returns the model's JSON evaluation.                                    *)
(*                                                                         *)
(*   "allowList"  lines   1-159  OpenRouter, allow-list CORS (setCors)      *)
(*   "allowCors"  lines 160-304  OpenRouter, allowCors wrapper             *)
(*   "gemini"     lines 305-409  Gemini, allowCors wrapper, parseDataUri   *)
(*                                                                         *)
(* One invocation runs synchronously from its entry to the first await     *)
(* (the outbound model call) or to a response; the continuation runs when  *)
(* the outbound call returns or throws.  Strings whose characters decide   *)
(* control flow (speechSample) are sequences of one-character strings;     *)
(* the model's reply is a sequence of lexical tokens.  CORS headers do     *)
(* not influence status, body or the outbound call and are not modelled.   *)
(***************************************************************************)
EXTENDS Integers, Sequences, FiniteSets, TLC

VARIABLES rev, apiKey, pc, req, sent, calls, upstream, responses

vars == <<rev, apiKey, pc, req, sent, calls, upstream, responses>>

\* Longest model reply (in tokens) that the outbound call may return.
MaxReplyLen == 3

Revisions == {"allowList", "allowCors", "gemini"}

----------------------------------------------------------------------------
(* JavaScript values of the request fields *)

Undefined == [t |-> "undefined", chars |-> <<>>, n |-> 0]

Str(cs) == [t |-> "string", chars |-> cs, n |-> 0]

Num(k) == [t |-> "number", chars |-> <<>>, n |-> k]

\* !v
Falsy(v) ==
  \/ v.t = "undefined"
  \/ v.t = "string" /\ v.chars = <<>>
  \/ v.t = "number" /\ v.n = 0

Digits == <<"0", "1", "2", "3", "4", "5", "6", "7", "8", "9">>

\* String(v) for the values above (numbers are single digits here)
String(v) ==
  IF v.t = "string" THEN v.chars
  ELSE IF v.t = "number" THEN <<Digits[v.n + 1]>>
  ELSE <<"u", "n", "d", "e", "f", "i", "n", "e", "d">>

HasPrefix(s, p) == Len(s) >= Len(p) /\ SubSeq(s, 1, Len(p)) = p

DataPrefix == <<"d", "a", "t", "a", ":">>

Base64Marker == <<";", "b", "a", "s", "e", "6", "4", ",">>

\* characters the regex dot does not match
LineTerminators == {"\n", "\r"}

\* typeof speechSample === 'string' && speechSample.startsWith('data:')
IsDataString(v) == v.t = "string" /\ HasPrefix(v.chars, DataPrefix)

NoAudio == [ok |-> FALSE, mimeType |-> <<>>, base64 |-> <<>>]

\* parseDataUri with the MIME type allowed to be empty: /^data:([^;]*);base64,(.*)$/
parseDataUriEmptyMime(dataUri) ==
  IF ~HasPrefix(dataUri, DataPrefix) THEN NoAudio
  ELSE
    LET rest == SubSeq(dataUri, Len(DataPrefix) + 1, Len(dataUri))
        semis == {i \in 1..Len(rest) : rest[i] = ";"}
    IN IF semis = {} THEN NoAudio
       ELSE
         LET i == CHOOSE k \in semis : \A j \in semis : k <= j
             tail == SubSeq(rest, i, Len(rest))
             payload == SubSeq(tail, Len(Base64Marker) + 1, Len(tail))
         IN IF /\ HasPrefix(tail, Base64Marker)
               /\ \A j \in 1..Len(payload) : payload[j] \notin LineTerminators
            THEN [ok |-> TRUE, mimeType |-> SubSeq(rest, 1, i - 1), base64 |-> payload]
            ELSE NoAudio

\* dataUri.match(/^data:([^;]+);base64,(.*)$/): [^;]+ stops at the first ';'
\* after the prefix, which must open ";base64,"; (.*)$ must reach the end of
\* the string without crossing a line terminator.
parseDataUri(dataUri) ==
  IF ~HasPrefix(dataUri, DataPrefix) THEN NoAudio
  ELSE
    LET rest == SubSeq(dataUri, Len(DataPrefix) + 1, Len(dataUri))
        semis == {i \in 1..Len(rest) : rest[i] = ";"}
    IN IF semis = {} THEN NoAudio
       ELSE
         LET i == CHOOSE k \in semis : \A j \in semis : k <= j
             tail == SubSeq(rest, i, Len(rest))
             payload == SubSeq(tail, Len(Base64Marker) + 1, Len(tail))
         IN IF /\ i > 1
               /\ HasPrefix(tail, Base64Marker)
               /\ \A j \in 1..Len(payload) : payload[j] \notin LineTerminators
            THEN [ok |-> TRUE, mimeType |-> SubSeq(rest, 1, i - 1), base64 |-> payload]
            ELSE NoAudio

----------------------------------------------------------------------------
(* JSON values: the model's reply and the response bodies *)

Absent == [t |-> "absent", s |-> "", len |-> 0]

JStr(x) == [t |-> "string", s |-> x, len |-> 0]

\* an array, by its number of entries
JArr(k) == [t |-> "array", s |-> "", len |-> k]

\* a JSON object by its fields; nul marks the JSON value null
Obj(ec, err, det) ==
  [nul |-> FALSE, evaluationCriteria |-> ec, error |-> err, details |-> det]

JNull == [nul |-> TRUE, evaluationCriteria |-> Absent, error |-> Absent, details |-> Absent]

EmptyObj == Obj(Absent, Absent, Absent)

\* the number of criteria the prompt asks for and the allow-list revision enforces
RequiredCriteria == 15

\* Lexical tokens of a reply: braces, prose ("w"), the literal null, and
\* members "evaluationCriteria": <array of 15>, <array of 14>, <a string>.
MemberTokens == {"ec15", "ec14", "ecStr"}

ReplyTokens == {"{", "}", "w", "null"} \cup MemberTokens

MemberValue(tok) ==
  IF tok = "ec15" THEN JArr(RequiredCriteria)
  ELSE IF tok = "ec14" THEN JArr(RequiredCriteria - 1)
  ELSE JStr("fifteen")

IsObjectText(text) ==
  /\ Len(text) >= 2
  /\ text[1] = "{"
  /\ text[Len(text)] = "}"
  /\ \A i \in 2..(Len(text) - 1) : text[i] \in MemberTokens

\* JSON.parse(text) does not throw
JSONParseOk(text) == text = <<"null">> \/ IsObjectText(text)

\* JSON.parse(text), for text it accepts; a repeated key keeps its last value
JSONParse(text) ==
  IF text = <<"null">> THEN JNull
  ELSE LET members == 2..(Len(text) - 1)
       IN IF members = {} THEN EmptyObj
          ELSE LET last == CHOOSE i \in members : \A j \in members : j <= i
               IN Obj(MemberValue(text[last]), Absent, Absent)

\* text.match(/\{[\s\S]*\}/): greedy, from the first '{' to the last '}'
HasBraceSpan(text) ==
  \E i, j \in 1..Len(text) : i < j /\ text[i] = "{" /\ text[j] = "}"

BraceSpan(text) ==
  LET opens == {i \in 1..Len(text) : text[i] = "{"}
      first == CHOOSE i \in opens : \A k \in opens : i <= k
      closes == {j \in 1..Len(text) : text[j] = "}" /\ j > first}
      last == CHOOSE j \in closes : \A k \in closes : k <= j
  IN SubSeq(text, first, last)

\* Array.isArray(parsed.evaluationCriteria)
IsArray(v) == v.t = "array"

\* !parsed.evaluationCriteria on a non-null object (an array is truthy even when empty)
NoCriteria(parsed) ==
  \/ parsed.evaluationCriteria.t = "absent"
  \/ parsed.evaluationCriteria.t = "string" /\ parsed.evaluationCriteria.s = ""

----------------------------------------------------------------------------
(* Responses *)

NoJson == JNull

JsonResponse(status, body) == [status |-> status, kind |-> "json", text |-> "", json |-> body]

TextResponse(status, text) == [status |-> status, kind |-> "text", text |-> text, json |-> NoJson]

EndResponse(status) == [status |-> status, kind |-> "end", text |-> "", json |-> NoJson]

ErrorBody(msg) == Obj(Absent, JStr(msg), Absent)

ErrorDetails(msg, det) == Obj(Absent, JStr(msg), JStr(det))

----------------------------------------------------------------------------
(* Inputs *)

Methods == {"POST", "OPTIONS", "GET", "PUT"}

AudioMime == <<"a", "/", "w">>

AudioPayload == <<"Q", "U", "=">>

SpeechSamples ==
  { Undefined, Str(<<>>), Num(0), Num(7), Str(<<"h", "i">>),
    Str(DataPrefix),
    Str(DataPrefix \o AudioMime \o Base64Marker \o AudioPayload),
    Str(DataPrefix \o AudioMime \o Base64Marker),
    Str(DataPrefix \o Base64Marker \o AudioPayload),
    Str(DataPrefix \o AudioMime \o <<";", "c">> \o Base64Marker \o AudioPayload),
    Str(DataPrefix \o AudioMime \o Base64Marker \o <<"Q", "\n", "U">>),
    Str(DataPrefix \o AudioMime \o <<",">> \o AudioPayload) }

Modes == {Undefined, Str(<<>>), Str(<<"i", "v">>)}

Questions == {Undefined, Str(<<"q">>)}

PerfectAnswers == {Undefined, Str(<<"p">>)}

\* req.body || {}: a missing body reads as an object without fields
NoBody ==
  [present |-> FALSE, speechSample |-> Undefined, mode |-> Undefined,
   question |-> Undefined, perfectAnswer |-> Undefined]

Bodies ==
  {NoBody} \cup
  [present : {TRUE}, speechSample : SpeechSamples, mode : Modes,
   question : Questions, perfectAnswer : PerfectAnswers]

NoRequest == [method |-> "", body |-> NoBody]

Replies == UNION {[1..k -> ReplyTokens] : k \in 0..MaxReplyLen}

UpstreamStatuses == {429, 503}

UpstreamTexts == {"", "quota exceeded"}

NoOutcome == [kind |-> "none", status |-> 0, text |-> "", shape |-> "none", reply |-> <<>>]

\* the outbound call resolves with a success status; shape says what the
\* payload holds: a reply text, no text, or (OpenRouter) no choices at all,
\* (Gemini) a body that is not JSON
Completions(r) ==
  [kind : {"completion"}, status : {200}, text : {""}, shape : {"content"}, reply : Replies]
  \cup
  [kind : {"completion"}, status : {200}, text : {""},
   shape : IF r = "gemini" THEN {"noCandidates", "notJson"} ELSE {"noContent", "noChoices"},
   reply : {<<>>}]

\* the external API answers with a non-success status and an error text
HttpErrors ==
  [kind : {"httpError"}, status : UpstreamStatuses, text : UpstreamTexts,
   shape : {"none"}, reply : {<<>>}]

\* the outbound call fails before any answer arrives
NetworkError ==
  [kind |-> "networkError", status |-> 0, text |-> "fetch failed", shape |-> "none", reply |-> <<>>]

----------------------------------------------------------------------------
(* Prompt construction *)

NoMessage ==
  [system |-> "", context |-> <<>>, kind |-> "none", label |-> "",
   text |-> <<>>, mimeType |-> <<>>, data |-> <<>>]

\* systemPrompt branches on perfectAnswer
SystemPrompt(body) == IF Falsy(body.perfectAnswer) THEN "speechCoach" ELSE "examEvaluator"

\* contextText: "Context: mode", then the optional Question and Perfect Answer lines
ContextText(body) ==
  <<<<"Context", String(body.mode)>>>>
  \o (IF Falsy(body.question) THEN <<>> ELSE <<<<"Question", String(body.question)>>>>)
  \o (IF Falsy(body.perfectAnswer) THEN <<>> ELSE <<<<"Perfect Answer", String(body.perfectAnswer)>>>>)

TextMessage(body, label, text) ==
  [system |-> SystemPrompt(body), context |-> ContextText(body), kind |-> "text",
   label |-> label, text |-> text, mimeType |-> <<>>, data |-> <<>>]

AudioMessage(body, audio) ==
  [system |-> SystemPrompt(body), context |-> ContextText(body), kind |-> "inlineData",
   label |-> "", text |-> <<>>, mimeType |-> audio.mimeType, data |-> audio.base64]

\* userMessage of the two OpenRouter revisions: the sample is always prompt text
UserMessage(body) ==
  IF IsDataString(body.speechSample)
  THEN TextMessage(body, "Speech Sample (Audio Data URI)", body.speechSample.chars)
  ELSE TextMessage(body, "Speech Sample (Text)", String(body.speechSample))

\* parts of the Gemini revision, for a sample parseDataUri accepted or a text
Parts(body) ==
  IF IsDataString(body.speechSample)
  THEN AudioMessage(body, parseDataUri(body.speechSample.chars))
  ELSE TextMessage(body, "Speech Sample (Candidate's Answer)", String(body.speechSample))

----------------------------------------------------------------------------
(* The handlers up to the outbound call *)

\* Respond with the status set but nothing sent
RespondUnsent(r) == [done |-> TRUE, out |-> <<>>, message |-> NoMessage]

Respond(r) == [done |-> TRUE, out |-> <<r>>, message |-> NoMessage]

Call(m) == [done |-> FALSE, out |-> <<>>, message |-> m]

\* MethodNotAllowed with GET let through
MethodNotAllowedButGet(method) == method \notin {"POST", "GET"}

\* req.method !== 'POST'
MethodNotAllowed(method) == method # "POST"

\* MissingKey with the check dropped
MissingKeyUnchecked(key) == FALSE

\* !OPENROUTER_API_KEY, !GOOGLE_AI_API_KEY
MissingKey(key) == ~key

\* MissingFields looking at speechSample only
MissingFieldsSampleOnly(body) == Falsy(body.speechSample)

\* !speechSample || !mode
MissingFields(body) == Falsy(body.speechSample) \/ Falsy(body.mode)

EntryAllowList(method, body, key) ==
  IF method = "OPTIONS" THEN Respond(EndResponse(204))
  ELSE IF MethodNotAllowed(method) THEN Respond(TextResponse(405, "Method Not Allowed"))
  ELSE IF MissingKey(key) THEN Respond(JsonResponse(500, ErrorBody("Missing OPENROUTER_API_KEY")))
  ELSE IF MissingFields(body)
    THEN Respond(JsonResponse(400, ErrorBody("Missing required fields: speechSample, mode")))
  ELSE Call(UserMessage(body))

EntryAllowCors(method, body, key) ==
  IF method = "OPTIONS" THEN Respond(EndResponse(200))
  ELSE IF MethodNotAllowed(method) THEN Respond(TextResponse(405, "Method Not Allowed"))
  ELSE IF MissingKey(key) THEN Respond(JsonResponse(500, ErrorBody("Missing OPENROUTER_API_KEY")))
  ELSE IF MissingFields(body) THEN Respond(JsonResponse(400, ErrorBody("Missing required fields.")))
  ELSE Call(UserMessage(body))

EntryGemini(method, body, key) ==
  IF method = "OPTIONS" THEN Respond(EndResponse(200))
  ELSE IF MethodNotAllowed(method) THEN Respond(TextResponse(405, "Method Not Allowed"))
  ELSE IF MissingKey(key) THEN Respond(JsonResponse(500, ErrorBody("Missing GOOGLE_AI_API_KEY")))
  ELSE IF MissingFields(body) THEN Respond(JsonResponse(400, ErrorBody("Missing required fields.")))
  ELSE IF IsDataString(body.speechSample) /\ ~parseDataUri(body.speechSample.chars).ok
    THEN Respond(JsonResponse(400, ErrorBody("Invalid audio data URI.")))
  ELSE Call(Parts(body))

----------------------------------------------------------------------------
(* The handlers after the outbound call *)

\* !responseText: no content, or an empty string
NoResponseText(o) == o.shape # "content" \/ o.reply = <<>>

\* InvalidStructure without the length test
InvalidStructureAnyLength(parsed) ==
  \/ parsed.nul
  \/ NoCriteria(parsed)
  \/ ~IsArray(parsed.evaluationCriteria)

\* InvalidStructure with the length test inverted
InvalidStructureInverted(parsed) ==
  \/ parsed.nul
  \/ NoCriteria(parsed)
  \/ ~IsArray(parsed.evaluationCriteria)
  \/ parsed.evaluationCriteria.len = RequiredCriteria

\* allow-list revision: !parsed?.evaluationCriteria || !Array.isArray(..) || length !== 15
InvalidStructure(parsed) ==
  \/ parsed.nul
  \/ NoCriteria(parsed)
  \/ ~IsArray(parsed.evaluationCriteria)
  \/ parsed.evaluationCriteria.len # RequiredCriteria

\* allowCors revision: !parsed.evaluationCriteria || !Array.isArray(..)
InvalidStructureLoose(parsed) ==
  NoCriteria(parsed) \/ ~IsArray(parsed.evaluationCriteria)

\* The OpenAI client throws for a non-success answer and for a failed
\* connection; the allow-list revision's catch answers 500 with the message.
ContinueAllowList(o) ==
  IF o.kind # "completion"
    THEN <<JsonResponse(500, ErrorDetails("Analysis failed", IF o.text = "" THEN "unknown" ELSE o.text))>>
  ELSE IF NoResponseText(o)
    THEN <<JsonResponse(502, ErrorBody("No response from model"))>>
  ELSE IF ~JSONParseOk(o.reply)
    THEN <<JsonResponse(502, ErrorBody("Model returned non-JSON output"))>>
  ELSE IF InvalidStructure(JSONParse(o.reply))
    THEN <<JsonResponse(502, ErrorBody("Invalid response structure: evaluationCriteria must contain 15 items"))>>
  ELSE <<JsonResponse(200, JSONParse(o.reply))>>

\* allowCors revision: completion.choices[0] and parsed.evaluationCriteria
\* throw a TypeError on undefined choices and on a parsed null; the catch
\* answers 500 with error.message.
ContinueAllowCors(o) ==
  IF o.kind # "completion"
    THEN <<JsonResponse(500, ErrorDetails("Analysis failed", o.text))>>
  ELSE IF o.shape = "noChoices"
    THEN <<JsonResponse(500, ErrorDetails("Analysis failed", "Cannot read properties of undefined"))>>
  ELSE IF NoResponseText(o)
    THEN <<JsonResponse(500, ErrorBody("No response from AI model"))>>
  ELSE IF ~JSONParseOk(o.reply)
    THEN <<JsonResponse(500, ErrorBody("Failed to parse AI response as JSON"))>>
  ELSE IF JSONParse(o.reply).nul
    THEN <<JsonResponse(500, ErrorDetails("Analysis failed", "Cannot read properties of null"))>>
  ELSE IF InvalidStructureLoose(JSONParse(o.reply))
    THEN <<JsonResponse(500, ErrorBody("Invalid response structure from AI"))>>
  ELSE <<JsonResponse(200, JSONParse(o.reply))>>

\* data?.candidates?.[0]?.content?.parts?.[0]?.text || ''
CandidateText(o) == IF o.shape = "content" THEN o.reply ELSE <<>>

\* Gemini revision: a rejected fetch, a body r.json() cannot read and a
\* brace span JSON.parse rejects all throw into the catch.
ContinueGemini(o) ==
  IF o.kind = "networkError"
    THEN <<JsonResponse(500, ErrorBody("Analysis failed."))>>
  ELSE IF o.kind = "httpError"
    THEN <<JsonResponse(o.status, ErrorBody(o.text))>>
  ELSE IF o.shape = "notJson"
    THEN <<JsonResponse(500, ErrorBody("Analysis failed."))>>
  ELSE IF ~HasBraceSpan(CandidateText(o))
    THEN <<JsonResponse(502, ErrorBody("Model did not return JSON."))>>
  ELSE IF ~JSONParseOk(BraceSpan(CandidateText(o)))
    THEN <<JsonResponse(500, ErrorBody("Analysis failed."))>>
  ELSE <<JsonResponse(200, JSONParse(BraceSpan(CandidateText(o))))>>

Entry(r, method, body, key) ==
  IF r = "allowList" THEN EntryAllowList(method, body, key)
  ELSE IF r = "allowCors" THEN EntryAllowCors(method, body, key)
  ELSE EntryGemini(method, body, key)

Continue(r, o) ==
  IF r = "allowList" THEN ContinueAllowList(o)
  ELSE IF r = "allowCors" THEN ContinueAllowCors(o)
  ELSE ContinueGemini(o)

----------------------------------------------------------------------------
(* State machine: one deployed revision serving one request at a time *)

Init ==
  /\ rev \in Revisions
  /\ apiKey \in BOOLEAN
  /\ pc = "idle"
  /\ req = NoRequest
  /\ sent = NoMessage
  /\ calls = 0
  /\ upstream = NoOutcome
  /\ responses = <<>>

\* The platform invokes the handler; it runs to a response or to the await
\* of the outbound call.
handler(method, body) ==
  /\ pc = "idle"
  /\ req' = [method |-> method, body |-> body]
  /\ LET e == Entry(rev, method, body, apiKey)
     IN /\ responses' = responses \o e.out
        /\ sent' = e.message
        /\ calls' = IF e.done THEN calls ELSE calls + 1
        /\ pc' = IF e.done THEN "done" ELSE "awaiting"
  /\ UNCHANGED <<rev, apiKey, upstream>>

\* The awaited call has settled with the outcome upstream'; the rest of the
\* handler runs to its response.
Resume ==
  /\ responses' = responses \o Continue(rev, upstream')
  /\ pc' = "done"
  /\ UNCHANGED <<rev, apiKey, req, sent, calls>>

\* the awaited call resolves with a success status
ModelReplies ==
  /\ pc = "awaiting"
  /\ upstream' \in Completions(rev)
  /\ Resume

\* the external API answers the call with a non-success status
UpstreamRejects ==
  /\ pc = "awaiting"
  /\ upstream' \in HttpErrors
  /\ Resume

\* the call fails without an answer
CallFails ==
  /\ pc = "awaiting"
  /\ upstream' = NetworkError
  /\ Resume

\* The invocation is over; its request-scoped values are discarded.
Finish ==
  /\ pc = "done"
  /\ pc' = "idle"
  /\ req' = NoRequest
  /\ sent' = NoMessage
  /\ calls' = 0
  /\ upstream' = NoOutcome
  /\ responses' = <<>>
  /\ UNCHANGED <<rev, apiKey>>

Invoke == \E method \in Methods, body \in Bodies : handler(method, body)

Next == Invoke \/ ModelReplies \/ UpstreamRejects \/ CallFails \/ Finish

Spec == Init /\ [][Next]_vars

\* the awaited call eventually returns or throws
FairSpec == Spec /\ WF_vars(ModelReplies \/ UpstreamRejects \/ CallFails)

TypeOK ==
  /\ rev \in Revisions
  /\ pc \in {"idle", "awaiting", "done"}
  /\ calls \in 0..1

----------------------------------------------------------------------------
(* Vocabulary of the properties, stated on the request and the outcome *)

Answered == pc = "done" /\ Len(responses) >= 1

Response == responses[1]

\* a field that is absent or the empty string
EmptyField(v) == v.t = "undefined" \/ (v.t = "string" /\ Len(v.chars) = 0)

\* a field holding a non-empty string or a non-zero number
NonEmptyField(v) == (v.t = "string" /\ Len(v.chars) > 0) \/ (v.t = "number" /\ v.n # 0)

LacksRequiredField(body) == EmptyField(body.speechSample) \/ EmptyField(body.mode)

HasErrorMessage(r) == r.kind = "json" /\ ~r.json.nul /\ r.json.error.t = "string"

\* s is data:<mime>;base64,<payload> with a non-empty mime free of ';' and a
\* payload free of line breaks
MatchesDataUriPattern(s) ==
  \E k \in 1..Len(s) :
    LET m == Len(DataPrefix) + k
        mime == SubSeq(s, Len(DataPrefix) + 1, m)
        payload == SubSeq(s, m + Len(Base64Marker) + 1, Len(s))
    IN /\ m + Len(Base64Marker) <= Len(s)
       /\ SubSeq(s, 1, Len(DataPrefix)) = DataPrefix
       /\ \A i \in 1..Len(mime) : mime[i] # ";"
       /\ SubSeq(s, m + 1, m + Len(Base64Marker)) = Base64Marker
       /\ \A i \in 1..Len(payload) : payload[i] \notin {"\n", "\r"}

DataSample == req.body.speechSample.t = "string" /\ HasPrefix(req.body.speechSample.chars, DataPrefix)

\* the request gets past method, key and field checks
PassesChecks ==
  /\ req.method = "POST" /\ apiKey
  /\ NonEmptyField(req.body.speechSample) /\ NonEmptyField(req.body.mode)

PassesValidation ==
  /\ PassesChecks
  /\ (rev = "gemini" /\ DataSample) => MatchesDataUriPattern(req.body.speechSample.chars)

\* the model's reply text, when the call returned one
Replied == pc = "done" /\ upstream.kind = "completion" /\ upstream.shape = "content"

\* the reply parses neither directly nor as its outermost brace span
Unparseable(text) ==
  /\ ~JSONParseOk(text)
  /\ ~(HasBraceSpan(text) /\ JSONParseOk(BraceSpan(text)))

\* the text the revision hands to JSON.parse
ParsedText == IF rev = "gemini" THEN BraceSpan(upstream.reply) ELSE upstream.reply

ParsesAsJson ==
  /\ Replied
  /\ IF rev = "gemini" THEN HasBraceSpan(upstream.reply) /\ JSONParseOk(BraceSpan(upstream.reply))
     ELSE JSONParseOk(upstream.reply)

FifteenCriteria(v) == ~v.nul /\ v.evaluationCriteria.t = "array" /\ v.evaluationCriteria.len = 15

----------------------------------------------------------------------------
(* C1 *)

\* C1 as stated: every answered request whose body lacks a non-empty
\* speechSample or mode gets status 400 with an error message, whatever the
\* method and whether or not the API key is set.
C1_AsStated ==
  (Answered /\ LacksRequiredField(req.body)) =>
    (Response.status = 400 /\ HasErrorMessage(Response))

\* C1 (amended): a POST request to a handler whose API key is set, with a
\* body lacking a non-empty speechSample or mode, gets status 400 with an
\* error message and no outbound call; with another method it gets the
\* method check's answer (405, or the preflight 204/200) and with the key
\* unset it gets 500, in each revision.
C1_MissingFields400 ==
  (pc # "idle" /\ LacksRequiredField(req.body)) =>
    /\ Answered /\ Len(responses) = 1 /\ calls = 0
    /\ (req.method = "POST" /\ apiKey) =>
         (Response.status = 400 /\ HasErrorMessage(Response))
    /\ (req.method = "POST" /\ ~apiKey) => Response.status = 500
    /\ req.method = "OPTIONS" => Response.status \in {200, 204}
    /\ req.method \notin {"POST", "OPTIONS"} => Response.status = 405

C1_Witness ==
  /\ Answered /\ rev = "gemini" /\ req.method = "POST" /\ apiKey
  /\ req.body.present /\ NonEmptyField(req.body.speechSample) /\ EmptyField(req.body.mode)
  /\ Response.status = 400

(* C2 *)

\* C2 as stated: a reply that parses neither directly nor as its outermost
\* brace span, the empty reply included, is answered with status 502.
C2_UnparseableReply502 ==
  (Replied /\ Unparseable(upstream.reply)) =>
    (Len(responses) = 1 /\ Response.status = 502)

(* C3 *)

\* C3 as stated: in each revision a reply that parses as JSON without an
\* evaluationCriteria array of exactly 15 entries is answered 502, and the
\* body of every 200 answer to a reply has exactly 15 evaluationCriteria.
C3_AsStated ==
  /\ (ParsesAsJson /\ ~FifteenCriteria(JSONParse(ParsedText))) => Response.status = 502
  /\ (Replied /\ Len(responses) = 1 /\ Response.status = 200) => FifteenCriteria(Response.json)

\* C3 (amended): in the allow-list CORS revision a reply that parses as JSON
\* without an evaluationCriteria array of exactly 15 entries is answered 502
\* and every 200 body has exactly 15 entries; the allowCors OpenRouter
\* revision answers 500 when evaluationCriteria is absent or not an array
\* (or the reply is null) and passes an array of any length through with 200;
\* the Gemini revision passes every parsed object through with 200.
C3_CriteriaCheckedPerRevision ==
  /\ (rev = "allowList" /\ ParsesAsJson /\ ~FifteenCriteria(JSONParse(ParsedText)))
       => Response.status = 502
  /\ (rev = "allowList" /\ Replied /\ Response.status = 200) => FifteenCriteria(Response.json)
  /\ (rev = "allowCors" /\ ParsesAsJson) =>
       IF ~JSONParse(ParsedText).nul /\ JSONParse(ParsedText).evaluationCriteria.t = "array"
       THEN Response.status = 200 /\ Response.json = JSONParse(ParsedText)
       ELSE Response.status = 500
  /\ (rev = "gemini" /\ ParsesAsJson) =>
       Response.status = 200 /\ Response.json = JSONParse(ParsedText)

C3_Witness ==
  /\ Replied /\ rev = "allowList" /\ upstream.reply = <<"{", "ec14", "}">>
  /\ Response.status = 502

(* C4 *)

C5_UpstreamStatusPropagated ==
  (pc = "done" /\ upstream.kind = "httpError") =>
    /\ Len(responses) = 1
    /\ Response.status = upstream.status
    /\ HasErrorMessage(Response) /\ Response.json.error.s = upstream.text

(* C6 *)

\* C6: a POST with the API key set and non-empty speechSample and mode, whose
\* model call returns a reply that is a valid JSON object with exactly 15
\* evaluationCriteria, is answered with status 200 and the parsed object as
\* the body, in each revision.
C6_ValidReplyReturned ==
  (Replied /\ PassesChecks /\ JSONParseOk(upstream.reply)
     /\ FifteenCriteria(JSONParse(upstream.reply))) =>
    /\ Len(responses) = 1
    /\ Response.status = 200
    /\ Response.kind = "json"
    /\ Response.json = JSONParse(upstream.reply)
    /\ Response.json = [nul |-> FALSE, evaluationCriteria |-> [t |-> "array", s |-> "", len |-> 15],
                        error |-> Absent, details |-> Absent]

C6_Witness ==
  /\ Replied /\ rev = "allowList" /\ upstream.reply = <<"{", "ec15", "}">>
  /\ Response.status = 200 /\ FifteenCriteria(Response.json)

(* C7 *)

\* C7: a request whose method is neither POST nor OPTIONS is answered 405,
\* whatever its body and whether or not the API key is set, and no outbound
\* call is made for it, in each revision.
C7_OtherMethods405 ==
  (pc # "idle" /\ req.method \notin {"POST", "OPTIONS"}) =>
    /\ pc = "done"
    /\ calls = 0 /\ sent = NoMessage
    /\ Len(responses) = 1
    /\ Response.status = 405

C7_Witness ==
  /\ Answered /\ req.method = "GET" /\ ~apiKey /\ req.body.present
  /\ ~LacksRequiredField(req.body) /\ Response.status = 405 /\ calls = 0

(* C8 *)

\* C8 as stated: every response with a 4xx or 5xx status has a JSON object
\* body with an error string.
C8_ErrorsAreJson ==
  \A i \in 1..Len(responses) :
    responses[i].status >= 400 => HasErrorMessage(responses[i])

(* C9 *)

\* C9: the number of outbound model calls for one request is 1 when the
\* request passes validation (POST, key set, non-empty speechSample and mode,
\* and in the Gemini revision a data URI that is well formed) and 0
\* otherwise; no reply, valid or not, and no failure causes a second call.
C9_OneCallIffValid ==
  /\ calls <= 1
  /\ pc # "idle" => calls = (IF PassesValidation THEN 1 ELSE 0)
  /\ pc = "awaiting" => PassesValidation
  /\ pc = "idle" => calls = 0

C9_Witness ==
  /\ pc = "done" /\ calls = 1 /\ upstream.kind = "completion"
  /\ Unparseable(upstream.reply) /\ Response.status >= 500

(* C10 *)

\* C10: every invocation sends exactly one response: never a second one,
\* one on every path that ends without an outbound call, and, the outbound
\* call eventually returning or throwing, one after it.
C10_ExactlyOneResponse ==
  /\ [](Len(responses) <= 1)
  /\ [](pc = "done" => Len(responses) = 1)
  /\ [](pc = "awaiting" => Len(responses) = 0)
  /\ (pc = "awaiting") ~> (pc = "done" /\ Len(responses) = 1)

C10_Witness ==
  /\ pc = "done" /\ Len(responses) = 1 /\ upstream.kind = "networkError"
  /\ Response.status = 500

====
